---- MODULE Spec2Model ----
(***************************************************************************)
(* AddressRangePermutation (src/lib/dhcpsrv/address_range_permutation.cc): *)
(* a lazy shuffle of the addresses of an address range.  The engine keeps  *)
(* a cursor, a sparse map from position to address and an exhaustion flag. *)
(* An address is modelled as <<family, number>>.                           *)
(***************************************************************************)
EXTENDS Integers, Sequences, FiniteSets, TLC

\* ---- bounds of the model ------------------------------------------------
MaxSize == 4          \* ranges of 1..MaxSize addresses
MaxExtraCalls == 2    \* next() calls made after the size-th call
IntBits == 4          \* bits given to the type int (the build has 32)
WideCalls == 3        \* next() calls made on a range wider than int
ConcMaxSize == 3      \* ranges of 1..ConcMaxSize addresses for two threads
ConcCalls == 4        \* next() calls made by the two threads together

\* ---- addresses and ranges ------------------------------------------------
Families == {4, 6}
Starts == {0, 10}

IPV4_ZERO_ADDRESS == <<4, 0>>
IPV6_ZERO_ADDRESS == <<6, 0>>

isV4(addr) == addr[1] = 4

\* Integer types.  The widths are scaled down together: int has IntBits
\* bits, uint64_t twice as many; an IPv4 address has as many bits as int
\* and an IPv6 address four times as many.
Uint64Bits == 2 * IntBits
IntMin == 0 - 2^(IntBits - 1)
IntMax == 2^(IntBits - 1) - 1

\* conversion of an integer value to uint64_t and to int
ToUint64(x) == x % 2^Uint64Bits
ToInt(x) ==
    LET m == x % 2^IntBits IN IF m > IntMax THEN m - 2^IntBits ELSE m

\* asiolink helpers used by the engine
offsetAddress(addr, offset) == <<addr[1], addr[2] + offset>>
addrsInRange(min, max) == max[2] - min[2] + 1

Ranges ==
    { [start_ |-> <<f, s>>, end_ |-> <<f, s + n - 1>>] :
        f \in Families, s \in Starts, n \in 1..MaxSize }

\* ranges with more addresses than int, and than uint64_t, can count
IntOverflowSize == 2^(IntBits - 1) + 2
CursorOverflowSize == 2^Uint64Bits + 2

WideRanges ==
    { [start_ |-> <<4, 0>>, end_ |-> <<4, IntOverflowSize - 1>>] } \cup
    { [start_ |-> <<6, s>>, end_ |-> <<6, s + n - 1>>] :
        s \in Starts, n \in {IntOverflowSize, CursorOverflowSize} }

\* the ranges the two threads run on
ConcRanges ==
    { [start_ |-> <<4, 10>>, end_ |-> <<4, 10 + n - 1>>] : n \in 1..ConcMaxSize }

\* the addresses start..end of a range, and its size
RangeAddrs(r) == { <<r.start_[1], n>> : n \in r.start_[2]..r.end_[2] }
Size(r) == addrsInRange(r.start_, r.end_)

\* ---- the engine as a value -----------------------------------------------
EmptyState == [k \in {} |-> IPV4_ZERO_ADDRESS]

\* value standing for "no address": the call ended with an exception
NoAddress == <<0, 0>>

\* constructor
AddressRangePermutation(range) ==
    [range |-> range,
     cursor |-> ToUint64(addrsInRange(range.start_, range.end_) - 1),
     state |-> EmptyState,
     done |-> FALSE]

\* bool exhausted() const
exhausted_Negated(e) == ~e.done
exhausted(e) == e.done

\* the condition of the final-address branch
OneAddressLeft_OffByOne(e) == e.cursor <= 1
OneAddressLeft(e) == e.cursor = 0

\* std::uniform_int_distribution<int> dist(0, cursor_ - 1): the values the
\* draw can produce.  The upper bound is converted from uint64_t to int; a
\* distribution whose upper bound is below its lower bound has undefined
\* behaviour, and the draw can then be any int.
dist_Inclusive(cursor) == 0..cursor
dist(cursor) ==
    LET b == ToInt(ToUint64(cursor - 1)) IN
    IF 0 <= b THEN 0..b ELSE IntMin..IntMax

\* A result of next is a record: eng, the engine after the call; addr and
\* done, what the caller receives; threw, whether the call ended with an
\* exception; drew and loc, whether a position was drawn and which.

\* branch 1: already exhausted
nextExhausted_V4Only(e) ==
    [eng |-> e, addr |-> IPV4_ZERO_ADDRESS, done |-> TRUE, threw |-> FALSE,
     drew |-> FALSE, loc |-> 0]
nextExhausted_Rewind(e) ==
    [eng |-> [e EXCEPT !.done = FALSE, !.cursor = Size(e.range) - 1,
                       !.state = EmptyState],
     addr |-> IF isV4(e.range.start_) THEN IPV4_ZERO_ADDRESS
                                      ELSE IPV6_ZERO_ADDRESS,
     done |-> TRUE, threw |-> FALSE, drew |-> FALSE, loc |-> 0]
nextExhausted(e) ==
    [eng |-> e,
     addr |-> IF isV4(e.range.start_) THEN IPV4_ZERO_ADDRESS
                                      ELSE IPV6_ZERO_ADDRESS,
     done |-> TRUE, threw |-> FALSE, drew |-> FALSE, loc |-> 0]

\* branch 2: one address left.  done and done_ are assigned first, then
\* state_.at(0) is evaluated; at() throws std::out_of_range when there is no
\* entry for position 0.
nextFinal_Dec(e) ==
    LET e2 == [e EXCEPT !.done = TRUE, !.cursor = e.cursor - 1] IN
    IF 0 \in DOMAIN e.state
    THEN [eng |-> e2, addr |-> e.state[0], done |-> TRUE, threw |-> FALSE,
          drew |-> FALSE, loc |-> 0]
    ELSE [eng |-> e2, addr |-> NoAddress, done |-> TRUE, threw |-> TRUE,
          drew |-> FALSE, loc |-> 0]
nextFinal(e) ==
    LET e2 == [e EXCEPT !.done = TRUE] IN
    IF 0 \in DOMAIN e.state
    THEN [eng |-> e2, addr |-> e.state[0], done |-> TRUE, threw |-> FALSE,
          drew |-> FALSE, loc |-> 0]
    ELSE [eng |-> e2, addr |-> NoAddress, done |-> TRUE, threw |-> TRUE,
          drew |-> FALSE, loc |-> 0]

\* branch 3: the general step with the drawn position next_loc, an int; it
\* is converted to uint64_t where it is used as a key of state_ and as an
\* offset
nextGeneral_Swap(e, next_loc) ==
    LET key == ToUint64(next_loc)
        next_loc_address ==
            IF key \in DOMAIN e.state
            THEN e.state[key]
            ELSE offsetAddress(e.range.start_, key)
        cursor_address ==
            IF e.cursor \in DOMAIN e.state
            THEN e.state[e.cursor]
            ELSE offsetAddress(e.range.start_, e.cursor)
        newstate ==
            [k \in DOMAIN e.state \cup {key, e.cursor} |->
                IF k = key THEN cursor_address
                ELSE IF k = e.cursor THEN next_loc_address ELSE e.state[k]]
    IN [eng |-> [e EXCEPT !.state = newstate, !.cursor = ToUint64(e.cursor - 1)],
        addr |-> next_loc_address, done |-> FALSE, threw |-> FALSE,
        drew |-> TRUE, loc |-> next_loc]
nextGeneral_InsertOnly(e, next_loc) ==
    LET key == ToUint64(next_loc)
        next_loc_address ==
            IF key \in DOMAIN e.state
            THEN e.state[key]
            ELSE offsetAddress(e.range.start_, key)
        cursor_address ==
            IF e.cursor \in DOMAIN e.state
            THEN e.state[e.cursor]
            ELSE offsetAddress(e.range.start_, e.cursor)
        newstate ==
            [k \in DOMAIN e.state \cup {key} |->
                IF k \in DOMAIN e.state THEN e.state[k] ELSE cursor_address]
    IN [eng |-> [e EXCEPT !.state = newstate, !.cursor = ToUint64(e.cursor - 1)],
        addr |-> next_loc_address, done |-> FALSE, threw |-> FALSE,
        drew |-> TRUE, loc |-> next_loc]
nextGeneral_NaturalCursor(e, next_loc) ==
    LET key == ToUint64(next_loc)
        next_loc_address ==
            IF key \in DOMAIN e.state
            THEN e.state[key]
            ELSE offsetAddress(e.range.start_, key)
        cursor_address ==
            offsetAddress(e.range.start_, e.cursor)
        newstate ==
            [k \in DOMAIN e.state \cup {key} |->
                IF k = key THEN cursor_address ELSE e.state[k]]
    IN [eng |-> [e EXCEPT !.state = newstate, !.cursor = ToUint64(e.cursor - 1)],
        addr |-> next_loc_address, done |-> FALSE, threw |-> FALSE,
        drew |-> TRUE, loc |-> next_loc]
nextGeneral_ReturnCursor(e, next_loc) ==
    LET key == ToUint64(next_loc)
        next_loc_address ==
            IF key \in DOMAIN e.state
            THEN e.state[key]
            ELSE offsetAddress(e.range.start_, key)
        cursor_address ==
            IF e.cursor \in DOMAIN e.state
            THEN e.state[e.cursor]
            ELSE offsetAddress(e.range.start_, e.cursor)
        newstate ==
            [k \in DOMAIN e.state \cup {key} |->
                IF k = key THEN cursor_address ELSE e.state[k]]
    IN [eng |-> [e EXCEPT !.state = newstate, !.cursor = ToUint64(e.cursor - 1)],
        addr |-> cursor_address, done |-> FALSE, threw |-> FALSE,
        drew |-> TRUE, loc |-> next_loc]
nextGeneral(e, next_loc) ==
    LET key == ToUint64(next_loc)
        next_loc_address ==
            IF key \in DOMAIN e.state
            THEN e.state[key]
            ELSE offsetAddress(e.range.start_, key)
        cursor_address ==
            IF e.cursor \in DOMAIN e.state
            THEN e.state[e.cursor]
            ELSE offsetAddress(e.range.start_, e.cursor)
        newstate ==
            [k \in DOMAIN e.state \cup {key} |->
                IF k = key THEN cursor_address ELSE e.state[k]]
    IN [eng |-> [e EXCEPT !.state = newstate, !.cursor = ToUint64(e.cursor - 1)],
        addr |-> next_loc_address, done |-> FALSE, threw |-> FALSE,
        drew |-> TRUE, loc |-> next_loc]

\* the draws a call can make in engine state e (one dummy value where the
\* call draws nothing)
Draws(e) == IF e.done \/ OneAddressLeft(e) THEN {0} ELSE dist(e.cursor)

\* IOAddress next(bool& done), as a function of the engine and the draw
next(e, next_loc) ==
    IF e.done THEN nextExhausted(e)
    ELSE IF OneAddressLeft(e) THEN nextFinal(e)
    ELSE nextGeneral(e, next_loc)

\* ---- the state machine ---------------------------------------------------
\* range_, cursor_, state_, done_: the members of the engine.
\* calls: the results the caller has received from next, in order.
\* exhaustedRet: the value returned by the last call to exhausted().
\* array: the array a[] of the header's explanation, shuffled in place with
\* the same draws (it is not part of the engine).
\* budget: the number of calls to next the caller makes at most.
\* pc, snap: for each calling thread, where it is in next ("idle" outside a
\* call) and the local variables of its call.
\* overlapped: a call was started while another call was in progress.
VARIABLES range_, cursor_, state_, done_, calls, exhaustedRet, array, budget,
          pc, snap, overlapped

vars == <<range_, cursor_, state_, done_, calls, exhaustedRet, array, budget,
          pc, snap, overlapped>>

Threads == {1, 2}

\* the local variables of a call that has not drawn yet
NoSnap == [cursor |-> 0, key |-> 0, existing |-> FALSE,
           cursor_address |-> NoAddress, result |-> <<>>]

\* the engine of the current state
Self == [range |-> range_, cursor |-> cursor_, state |-> state_, done |-> done_]

\* the header's array before the first step: a[i] = start + i
InitialArray(range) ==
    [i \in 0..(Size(range) - 1) |-> offsetAddress(range.start_, i)]

\* the swap of a[i] and a[j] of the original algorithm
SwapArray(arr, i, j) ==
    IF i \in DOMAIN arr /\ j \in DOMAIN arr
    THEN [arr EXCEPT ![i] = arr[j], ![j] = arr[i]]
    ELSE arr

\* the state after construction from range r
Construct(r, b) ==
    LET e == AddressRangePermutation(r) IN
    /\ range_ = e.range
    /\ cursor_ = e.cursor
    /\ state_ = e.state
    /\ done_ = e.done
    /\ calls = <<>>
    /\ exhaustedRet = <<>>
    /\ array = InitialArray(r)
    /\ budget = b
    /\ pc = [t \in Threads |-> "idle"]
    /\ snap = [t \in Threads |-> NoSnap]
    /\ overlapped = FALSE

Init == \E r \in Ranges : Construct(r, Size(r) + MaxExtraCalls)

\* construction from a range wider than int or uint64_t
InitWide == \E r \in WideRanges : Construct(r, WideCalls)

\* the caller may make one more call to next
MayCall == Len(calls) < budget

\* the effect of a call with result r: the members are updated and the
\* caller sees the returned address (or the exception) and the done flag
Apply(r) ==
    /\ cursor_' = r.eng.cursor
    /\ state_' = r.eng.state
    /\ done_' = r.eng.done
    /\ calls' = Append(calls, [addr |-> r.addr, done |-> r.done, threw |-> r.threw,
                                drew |-> r.drew, loc |-> r.loc])
    /\ array' = IF r.drew THEN SwapArray(array, r.loc, cursor_) ELSE array
    /\ UNCHANGED <<range_, exhaustedRet, budget, pc, snap, overlapped>>

CallNextExhausted ==
    /\ MayCall
    /\ done_
    /\ Apply(nextExhausted(Self))

CallNextFinal ==
    /\ MayCall
    /\ ~done_
    /\ OneAddressLeft(Self)
    /\ Apply(nextFinal(Self))

CallNextGeneral ==
    /\ MayCall
    /\ ~done_
    /\ ~OneAddressLeft(Self)
    /\ \E next_loc \in dist(cursor_) : Apply(nextGeneral(Self, next_loc))

CallExhausted ==
    /\ exhaustedRet' = <<exhausted(Self)>>
    /\ UNCHANGED <<range_, cursor_, state_, done_, calls, array, budget,
                   pc, snap, overlapped>>

Next ==
    \/ CallNextExhausted
    \/ CallNextFinal
    \/ CallNextGeneral
    \/ CallExhausted

Spec == Init /\ [][Next]_vars

SpecWide == InitWide /\ [][Next]_vars

\* ---- two threads calling next on one engine, without a lock ------------
\* next has no lock and no atomics: the steps of two calls interleave.  A
\* call reads done_, cursor_ and state_ (lines 27-73), then writes state_
\* (lines 80-84), then decrements cursor_ and returns (lines 86-89).  Each
\* of these three steps is taken as atomic.

\* thread t may start one more call
MayStart(t) ==
    /\ pc[t] = "idle"
    /\ Len(calls) + Cardinality({ u \in Threads : pc[u] # "idle" }) < budget

\* another thread is inside next
OtherInCall(t) == \E u \in Threads \ {t} : pc[u] # "idle"

\* the caller of thread t receives the result r
Deliver(r) ==
    calls' = Append(calls, [addr |-> r.addr, done |-> r.done, threw |-> r.threw,
                            drew |-> r.drew, loc |-> r.loc])

\* a call that returns from the exhausted branch
ThreadNextExhausted(t) ==
    /\ MayStart(t)
    /\ done_
    /\ Deliver(nextExhausted(Self))
    /\ overlapped' = (overlapped \/ OtherInCall(t))
    /\ UNCHANGED <<range_, cursor_, state_, done_, exhaustedRet, array, budget,
                   pc, snap>>

\* a call that returns from the final-address branch
ThreadNextFinal(t) ==
    /\ MayStart(t)
    /\ ~done_
    /\ OneAddressLeft(Self)
    /\ done_' = nextFinal(Self).eng.done
    /\ Deliver(nextFinal(Self))
    /\ overlapped' = (overlapped \/ OtherInCall(t))
    /\ UNCHANGED <<range_, cursor_, state_, exhaustedRet, array, budget, pc, snap>>

\* lines 38-73 of a general step: the draw and the two lookups, kept in the
\* locals of the call
ThreadRead(t) ==
    /\ MayStart(t)
    /\ ~done_
    /\ ~OneAddressLeft(Self)
    /\ \E next_loc \in dist(cursor_) :
          LET r == nextGeneral(Self, next_loc)
              key == ToUint64(next_loc)
          IN snap' = [snap EXCEPT ![t] =
                        [cursor |-> cursor_, key |-> key,
                         existing |-> key \in DOMAIN state_,
                         cursor_address |-> r.eng.state[key],
                         result |-> [addr |-> r.addr, done |-> r.done,
                                     threw |-> r.threw, drew |-> r.drew,
                                     loc |-> r.loc]]]
    /\ pc' = [pc EXCEPT ![t] = "write"]
    /\ overlapped' = (overlapped \/ OtherInCall(t))
    /\ UNCHANGED <<range_, cursor_, state_, done_, calls, exhaustedRet, array, budget>>

\* lines 80-84: insert (which leaves an entry that is there by now alone)
\* when the lookup had found no entry, assignment otherwise
ThreadWrite(t) ==
    /\ pc[t] = "write"
    /\ state_' =
          IF ~snap[t].existing /\ snap[t].key \in DOMAIN state_
          THEN state_
          ELSE [k \in DOMAIN state_ \cup {snap[t].key} |->
                  IF k = snap[t].key THEN snap[t].cursor_address ELSE state_[k]]
    /\ pc' = [pc EXCEPT ![t] = "dec"]
    /\ UNCHANGED <<range_, cursor_, done_, calls, exhaustedRet, array, budget,
                   snap, overlapped>>

\* lines 85-89: --cursor_ and the return.  The decrement is not atomic: it
\* stores one less than the current value, or one less than a value loaded
\* before the other thread's store (a lost update).
ThreadReturn(t) ==
    /\ pc[t] = "dec"
    /\ \E c \in {cursor_, snap[t].cursor} : cursor_' = ToUint64(c - 1)
    /\ Deliver(snap[t].result)
    /\ pc' = [pc EXCEPT ![t] = "idle"]
    /\ snap' = [snap EXCEPT ![t] = NoSnap]
    /\ UNCHANGED <<range_, state_, done_, exhaustedRet, array, budget, overlapped>>

NextConc ==
    \/ \E t \in Threads : ThreadNextExhausted(t)
    \/ \E t \in Threads : ThreadNextFinal(t)
    \/ \E t \in Threads : ThreadRead(t)
    \/ \E t \in Threads : ThreadWrite(t)
    \/ \E t \in Threads : ThreadReturn(t)

InitConc == \E r \in ConcRanges : Construct(r, ConcCalls)

SpecConc == InitConc /\ [][NextConc]_vars

TypeOK ==
    /\ range_ \in Ranges
    /\ cursor_ \in 0..(MaxSize - 1)
    /\ done_ \in BOOLEAN
    /\ DOMAIN state_ \subseteq 0..(MaxSize - 1)
    /\ exhaustedRet \in {<<>>, <<TRUE>>, <<FALSE>>}

\* ---- what the caller has observed ----------------------------------------
N == Size(range_)

\* the addresses returned by the calls made so far (a call that threw
\* returned none)
Returned == { calls[i].addr : i \in { j \in 1..Len(calls) : ~calls[j].threw } }

\* the addresses returned by the first N calls
ReturnedFirstN ==
    { calls[i].addr : i \in { j \in 1..Len(calls) : j <= N /\ ~calls[j].threw } }

ZeroOfFamily == IF isV4(range_.start_) THEN IPV4_ZERO_ADDRESS ELSE IPV6_ZERO_ADDRESS

\* the address occupying position p: the table entry, else start + p
Occupant(e, p) ==
    IF p \in DOMAIN e.state THEN e.state[p] ELSE offsetAddress(e.range.start_, p)

\* every sequence of addresses a fresh run of the engine e to exhaustion can
\* return, over all draws
RECURSIVE Orderings(_)
Orderings(e) ==
    IF e.done THEN {<<>>}
    ELSE UNION { { (IF r.threw THEN <<>> ELSE <<r.addr>>) \o t : t \in Orderings(r.eng) } :
                 r \in { next(e, p) : p \in Draws(e) } }

Ascending(r) == [i \in 1..Size(r) |-> offsetAddress(r.start_, i - 1)]

\* ---- C1 ------------------------------------------------------------------
\* C1: once N calls have been made, the first N calls have each returned an
\* address, the N addresses are pairwise distinct and their set is exactly
\* the set of addresses start..end of the range.
C1_FullPermutation ==
    Len(calls) >= N =>
        /\ \A i \in 1..N : ~calls[i].threw
        /\ \A i, j \in 1..N : i # j => calls[i].addr # calls[j].addr
        /\ ReturnedFirstN = RangeAddrs(range_)

\* ---- C2 ------------------------------------------------------------------
\* C2: for a range of one address the first call returns that address with
\* done = true and does not fail.
C2_SingleAddress ==
    (N = 1 /\ Len(calls) >= 1) =>
        /\ ~calls[1].threw
        /\ calls[1].addr = range_.start_
        /\ calls[1].done

\* ---- C3 ------------------------------------------------------------------
\* C3: in every non-exhausted state in which next makes a draw (more than
\* one address is left), every address of the range that has not been
\* returned yet is the result of the call for some value of the draw.
C3_DrawsFromAllRemaining ==
    (~done_ /\ ~OneAddressLeft(Self)) =>
        \A a \in RangeAddrs(range_) \ Returned :
            \E p \in Draws(Self) : next(Self, p).addr = a

\* ---- C4 ------------------------------------------------------------------
\* C4: the done flag reported by the i-th call is false for i < N and true
\* for i = N.
C4_DoneOnlyOnNth ==
    \A i \in 1..Len(calls) :
        /\ i < N => calls[i].done = FALSE
        /\ i = N => calls[i].done = TRUE

C4_Witness ==
    /\ N >= 3
    /\ Len(calls) = N
    /\ calls[N].done
    /\ ~calls[N - 1].done

\* ---- C5 ------------------------------------------------------------------
\* C5: a call to next made when the engine is exhausted returns the zero
\* address of the range's family with done = true and leaves the cursor,
\* the table and the exhaustion flag unchanged.
C5_PostExhaustion ==
    [][ (done_ /\ Len(calls') = Len(calls) + 1) =>
            /\ calls'[Len(calls')].addr = ZeroOfFamily
            /\ calls'[Len(calls')].done
            /\ ~calls'[Len(calls')].threw
            /\ UNCHANGED <<cursor_, state_, done_>> ]_vars

C5_Witness ==
    /\ ~isV4(range_.start_)
    /\ N >= 2
    /\ Len(calls) = N + MaxExtraCalls
    /\ calls[Len(calls)].addr = IPV6_ZERO_ADDRESS
    /\ calls[Len(calls) - 1].addr = IPV6_ZERO_ADDRESS

\* ---- C6 ------------------------------------------------------------------
\* C6: for a range of at least two addresses, runs of the engine to
\* exhaustion can produce two different orderings, and an ordering other
\* than the ascending one.
C6_OrderNotDetermined ==
    N >= 2 =>
        /\ \E o1, o2 \in Orderings(AddressRangePermutation(range_)) : o1 # o2
        /\ \E o \in Orderings(AddressRangePermutation(range_)) : o # Ascending(range_)

\* ---- C7 ------------------------------------------------------------------
\* C7: whenever the exhaustion flag is true, all addresses of the range have
\* been returned to the caller.
C7_FlagImpliesAllReturned ==
    done_ => Returned \cap RangeAddrs(range_) = RangeAddrs(range_)

\* ---- C8 ------------------------------------------------------------------
\* C8: once the exhaustion flag is true it is true after every further step.
C8_FlagSticky == [][done_ => done_']_vars

C8_Witness ==
    /\ done_
    /\ Len(calls) > N
    /\ exhaustedRet = <<TRUE>>

\* ---- C9 ------------------------------------------------------------------
\* C9: each of the first N calls returns a non-zero address that belongs to
\* the range.
C9_FirstNNonZeroInRange ==
    \A i \in 1..Len(calls) :
        i <= N =>
            /\ ~calls[i].threw
            /\ calls[i].addr \in RangeAddrs(range_)
            /\ calls[i].addr # ZeroOfFamily

\* ---- C10 -----------------------------------------------------------------
\* C10: no address that has been returned to the caller is a value of the
\* swap-record table.
C10_ReturnedNotStored ==
    \A k \in DOMAIN state_ : state_[k] \notin Returned

\* ---- C11 -----------------------------------------------------------------
\* C11: the table holds at most size - 1 entries, its keys are positions
\* within [0, size-1], and no step adds more than one entry to it.
C11_TableBounded ==
    /\ [](/\ Cardinality(DOMAIN state_) <= N - 1
          /\ DOMAIN state_ \subseteq 0..(N - 1))
    /\ [][Cardinality(DOMAIN state_') <= Cardinality(DOMAIN state_) + 1]_vars

C11_Witness ==
    /\ N = MaxSize
    /\ Cardinality(DOMAIN state_) = N - 1

\* ---- C13 -----------------------------------------------------------------
\* the algorithm went over all addresses of the range: the N-th call to next
\* has been made
WentOverAll == Len(calls) >= N

C14_CursorCountsDown ==
    /\ cursor_ >= 0
    /\ Len(calls) <= N - 1 => cursor_ = N - 1 - Len(calls)
    /\ Len(calls) > N - 1 => cursor_ = 0

C14_Witness ==
    /\ N = MaxSize
    /\ Len(calls) = N + 1
    /\ cursor_ = 0

\* ---- C15 -----------------------------------------------------------------
\* C15: a general-step call (cursor > 0, not exhausted) with draw p returns
\* the address occupying position p with done = false, sets the table entry
\* for p to the address occupying position cursor, and leaves every other
\* table entry and the exhaustion flag unchanged.
C15_GeneralStep ==
    [][ (~done_ /\ cursor_ > 0 /\ Len(calls') = Len(calls) + 1) =>
            LET c == calls'[Len(calls')]
                p == c.loc
            IN /\ c.drew
               /\ p \in 0..(cursor_ - 1)
               /\ ~c.threw
               /\ c.addr = Occupant(Self, p)
               /\ c.done = FALSE
               /\ DOMAIN state_' = DOMAIN state_ \cup {p}
               /\ state_'[p] = Occupant(Self, cursor_)
               /\ \A k \in DOMAIN state_ \ {p} : state_'[k] = state_[k]
               /\ done_' = done_ ]_vars

\* a general step has overwritten an entry and another one has inserted one
C15_Witness ==
    /\ N = MaxSize
    /\ Len(calls) = N - 1
    /\ calls[1].loc = calls[2].loc
    /\ calls[1].loc # 0
    /\ Cardinality(DOMAIN state_) = 2

\* ---- C16 -----------------------------------------------------------------
\* C16: with the array a[] shuffled in place by the same draws, the address
\* returned by the k-th general step is the value that landed at the cursor
\* position of that step, a[N - k], and for every position p below the
\* cursor the address occupying p in the engine is a[p].
C16_RefinesShuffle ==
    /\ \A k \in 1..Len(calls) : calls[k].drew => calls[k].addr = array[N - k]
    /\ \A p \in 0..(cursor_ - 1) : Occupant(Self, p) = array[p]

C16_Witness ==
    /\ N = MaxSize
    /\ Len(calls) = 2
    /\ cursor_ = N - 3
    /\ calls[1].loc = N - 2
    /\ calls[2].loc = 0
    /\ array[0] # InitialArray(range_)[0]

\* ---- C19 -----------------------------------------------------------------
\* C19: every table entry k -> x has x different from the natural address
\* start + k and x is an address of the range; a position up to the cursor
\* that has no entry holds its natural address in the array a[].
C19_OnlyDisplaced ==
    /\ \A k \in DOMAIN state_ :
          /\ state_[k] # offsetAddress(range_.start_, k)
          /\ state_[k] \in RangeAddrs(range_)
    /\ \A p \in 0..cursor_ :
          p \notin DOMAIN state_ => array[p] = offsetAddress(range_.start_, p)

C19_Witness ==
    /\ N = MaxSize
    /\ Cardinality(DOMAIN state_) = 2
    /\ cursor_ = 1
    /\ 1 \notin DOMAIN state_

\* ---- C20 -----------------------------------------------------------------
\* C20: in every non-exhausted state the addresses occupying positions
\* 0..cursor are pairwise distinct and their set is the set of addresses of
\* the range not returned yet, which has cursor + 1 elements.
C20_LivePositions ==
    ~done_ =>
        /\ \A p, q \in 0..cursor_ : p # q => Occupant(Self, p) # Occupant(Self, q)
        /\ { Occupant(Self, p) : p \in 0..cursor_ } = RangeAddrs(range_) \ Returned
        /\ Cardinality(RangeAddrs(range_) \ Returned) = cursor_ + 1

C20_Witness ==
    /\ ~done_
    /\ N = MaxSize
    /\ cursor_ = 1
    /\ DOMAIN state_ = {0, 1}

\* ---- C17 -----------------------------------------------------------------
\* C17: in every general step the drawn position is within [0, cursor - 1]
\* and that same non-negative value is the key written in the table.
C17_DrawWithinCursor ==
    [][ (Len(calls') = Len(calls) + 1 /\ calls'[Len(calls')].drew) =>
            /\ calls'[Len(calls')].loc \in 0..(cursor_ - 1)
            /\ calls'[Len(calls')].loc \in DOMAIN state_' ]_vars

\* ---- C18 -----------------------------------------------------------------
\* C18: after construction the cursor equals numeric(end) - numeric(start).
C18_CursorHoldsSize ==
    Len(calls) = 0 => cursor_ = range_.end_[2] - range_.start_[2]

\* ---- C12 -----------------------------------------------------------------
\* two general steps have returned the same address
DuplicateReturned ==
    \E i, j \in 1..Len(calls) :
        /\ i < j
        /\ calls[i].drew /\ calls[j].drew
        /\ calls[i].addr = calls[j].addr

\* no call is in progress, the engine is not exhausted and an address that
\* was not returned occupies none of the positions 0..cursor
AddressLost ==
    /\ \A t \in Threads : pc[t] = "idle"
    /\ ~done_
    /\ \E x \in RangeAddrs(range_) \ Returned :
          \A p \in 0..cursor_ : Occupant(Self, p) # x

\* C12: with two threads calling next on one engine, an address is returned
\* twice or lost only when calls have overlapped (calls the caller serializes
\* are safe); with overlapping calls a state in which the same address has
\* been returned to both callers is reached (C12_Witness).
C12_SafeOnlyIfSerialized ==
    (DuplicateReturned \/ AddressLost) => overlapped

C12_Witness ==
    /\ overlapped
    /\ Len(calls) = 2
    /\ calls[1].drew /\ calls[2].drew
    /\ calls[1].addr = calls[2].addr
    /\ calls[1].addr \in RangeAddrs(range_)
    /\ \A t \in Threads : pc[t] = "idle"

\* ---- C21 -----------------------------------------------------------------
\* C21: for a range of at least two addresses, whenever the engine is not
\* exhausted and the cursor is 0 the table has an entry for position 0 and
\* it is the one address not returned yet; the call made at cursor 1 drew
\* position 0; and the final-address call does not fail and returns that
\* address.
C21_PositionZeroRecorded ==
    N >= 2 =>
        /\ (~done_ /\ cursor_ = 0) =>
              /\ 0 \in DOMAIN state_
              /\ RangeAddrs(range_) \ Returned = {state_[0]}
        /\ Len(calls) >= N - 1 =>
              /\ calls[N - 1].drew
              /\ calls[N - 1].loc = 0
        /\ Len(calls) >= N =>
              /\ ~calls[N].threw
              /\ calls[N].addr \in RangeAddrs(range_)
              /\ \A i \in 1..(N - 1) : calls[i].addr # calls[N].addr

\* the final-address call has returned the entry for position 0, which was
\* first written after the first call
C21_Witness ==
    /\ N = MaxSize
    /\ Len(calls) = N
    /\ calls[1].loc # 0
    /\ ~calls[N].threw
    /\ calls[N].addr = state_[0]

====
